---- MODULE Spec2Model ----
(***************************************************************************)
(* Model of the gmailtracker backend, revision "Version 21.0" of server.js *)
(* (src/server.js lines 175-547): the open-event deduplicator behind       *)
(* GET /api/track-image/:id, message registration, the thread correlator   *)
(* behind GET /api/check-status, and the sponsor rotation behind           *)
(* GET /api/ads/serve.                                                     *)
(*                                                                         *)
(* Every handler is an async function: the code between two awaits runs    *)
(* atomically on the event loop, and each awaited store operation is one   *)
(* atomic step of the store.  A handler is therefore a sequence of steps   *)
(* that may interleave with the steps of other requests.                   *)
(*                                                                         *)
(* The clock counts ticks of TickSeconds seconds.                          *)
(***************************************************************************)
EXTENDS Integers, Sequences, FiniteSets, TLC

VARIABLES
    emails,     \* TrackedEmail collection: trackingId -> document
    clock,      \* wall clock read by new Date() / Date.now
    handlers,   \* in-flight GET /api/track-image requests, one per slot
    ads,        \* Ad collection: _id -> document
    adReqs,     \* in-flight GET /api/ads/serve requests, one per slot
    served,     \* number of ads/serve requests started so far
    admin,      \* the admin's in-flight toggle request and requests made
    query,      \* the in-flight GET /api/check-status request
    out         \* the response written by the last step, NoOut if none

vars == <<emails, clock, handlers, ads, adReqs, served, admin, query, out>>

trackVars == <<emails, clock, handlers, query>>
adVars == <<ads, adReqs, served, admin>>

(***************************************************************************)
(* Bounds of the model.                                                    *)
(***************************************************************************)
MaxClock == 2
TickSeconds == 150
MaxHandlers == 2
MaxOpens == 3
MaxAdReqs == 2
MaxServes == 3
MaxAdminOps == 2
NearCap == 2
MaxThreadOpens == 3

MsgIds == {"m1", "m2"}
Ips == {"ip1", "ip2"}
AdIds == <<"fb", "a1", "a2">>
Slots == 1..MaxHandlers
AdSlots == 1..MaxAdReqs

Null == "null"
None == <<>>
Some(x) == <<x>>

(***************************************************************************)
(* User agents are character sequences, so that the bot filter is the      *)
(* substring search the regular expression performs.                       *)
(***************************************************************************)
UAMozilla == <<"M", "o", "z">>
UAGoogleBot == <<"G", "B", "o", "T", "/", "2">>
UASpider == <<"s", "p", "i", "d", "e", "r">>
UAGoogleProxy ==
    <<"G", "o", "o", "g", "l", "e", "I", "m", "a", "g", "e", "P", "r", "o", "x", "y">>
UserAgents == {UAMozilla, UAGoogleBot, UASpider, UAGoogleProxy}
NoOut == [kind |-> "none"]

Upper == <<"A", "B", "C", "D", "E", "F", "G", "H", "I", "J", "K", "L", "M",
           "N", "O", "P", "Q", "R", "S", "T", "U", "V", "W", "X", "Y", "Z">>
Lower == <<"a", "b", "c", "d", "e", "f", "g", "h", "i", "j", "k", "l", "m",
           "n", "o", "p", "q", "r", "s", "t", "u", "v", "w", "x", "y", "z">>

\* the case folding of the regular expression flag i
ToLower(c) ==
    IF \E k \in 1..Len(Upper) : Upper[k] = c
    THEN Lower[CHOOSE k \in 1..Len(Upper) : Upper[k] = c]
    ELSE c

\* pat occurs somewhere in s, ignoring case: an unanchored /pat/i test
ContainsCI(s, pat) ==
    \E i \in 0..(Len(s) - Len(pat)) :
        \A k \in 1..Len(pat) : ToLower(s[i + k]) = ToLower(pat[k])

BotTokens ==
    { <<"b", "o", "t">>,
      <<"c", "r", "a", "w", "l", "e", "r">>,
      <<"s", "p", "i", "d", "e", "r">>,
      <<"f", "a", "c", "e", "b", "o", "o", "k", "e", "x", "t", "e", "r", "n", "a", "l", "h", "i", "t">> }

\* the mail-provider proxy signatures the first revision also filtered
ProxyTokens ==
    { <<"G", "o", "o", "g", "l", "e", "I", "m", "a", "g", "e", "P", "r", "o", "x", "y">>,
      <<"G", "m", "a", "i", "l">>,
      <<"Y", "a", "h", "o", "o", "M", "a", "i", "l", "P", "r", "o", "x", "y">> }

HasProxySignature(ua) == \E t \in ProxyTokens : ContainsCI(ua, t)

\* a mutant of isBot: the filter compares case-sensitively
IsBotCaseSensitive(ua) ==
    \E t \in BotTokens :
        \E i \in 0..(Len(ua) - Len(t)) : \A k \in 1..Len(t) : ua[i + k] = t[k]

\* const isBot = /bot|crawler|spider|facebookexternalhit/i.test(userAgent)
IsBot(ua) == \E t \in BotTokens : ContainsCI(ua, t)

(***************************************************************************)
(* TrackedEmail documents (emailSchema).                                   *)
(***************************************************************************)
NewEmail(id, parent, sender, recipients, subject, now) ==
    [ trackingId |-> id,
      parentId |-> parent,
      senderEmail |-> sender,
      recipientEmails |-> recipients,
      subject |-> subject,
      opened |-> FALSE,
      openCount |-> 0,
      openHistory |-> <<>>,
      lastOpenedAt |-> None,
      createdAt |-> now ]

\* a mutant of InsertEmail: registering an existing trackingId replaces it
InsertOrReplace(store, doc) ==
    [id \in DOMAIN store \cup {doc.trackingId} |->
        IF id = doc.trackingId THEN doc ELSE store[id]]

\* new TrackedEmail({...}).save(): trackingId is a unique key, so inserting
\* an id already present fails and leaves the collection as it was
InsertEmail(store, doc) ==
    IF doc.trackingId \in DOMAIN store
    THEN store
    ELSE [id \in DOMAIN store \cup {doc.trackingId} |->
            IF id = doc.trackingId THEN doc ELSE store[id]]

SessionWindow == 5

\* a mutant of SessionLocked: any earlier event from the IP inside the
\* window locks, not only the most recent event
SessionLockedByAnyEvent(email, ip, now) ==
    \E k \in 1..Len(email.openHistory) :
        /\ email.openHistory[k].ip = ip
        /\ (now - email.openHistory[k].timestamp) * TickSeconds < SessionWindow * 60

\* a mutant of SessionLocked: the window test is <= instead of <
SessionLockedInclusive(email, ip, now) ==
    /\ Len(email.openHistory) > 0
    /\ LET lastOpen == email.openHistory[Len(email.openHistory)]
       IN  lastOpen.ip = ip /\ (now - lastOpen.timestamp) * TickSeconds <= SessionWindow * 60

\* the 5-minute session lock, shouldCount = false:
\* timeDiff = (now - lastOpen.timestamp) / 1000 / 60 is in minutes, and
\* lastOpen.ip === ip && timeDiff < 5
SessionLocked(email, ip, now) ==
    /\ Len(email.openHistory) > 0
    /\ LET lastOpen == email.openHistory[Len(email.openHistory)]
       IN  lastOpen.ip = ip /\ (now - lastOpen.timestamp) * TickSeconds < SessionWindow * 60

OpenEvent(now, ip, ua) == [timestamp |-> now, ip |-> ip, userAgent |-> ua]

\* a mutant of CountOpen: the opened flag is not set
CountOpenWithoutFlag(email, now, ip, ua) ==
    [email EXCEPT !.openCount = email.openCount + 1,
                  !.openHistory = Append(email.openHistory, OpenEvent(now, ip, ua)),
                  !.lastOpenedAt = Some(now)]

\* the in-memory document after the handler's four assignments
CountOpen(email, now, ip, ua) ==
    [email EXCEPT !.opened = TRUE,
                  !.openCount = email.openCount + 1,
                  !.openHistory = Append(email.openHistory, OpenEvent(now, ip, ua)),
                  !.lastOpenedAt = Some(now)]

\* a mutant of SaveEmail: save() writes the whole in-memory document back
SaveWholeDocument(stored, local) == local

\* email.save(): the document was loaded by findOne and then modified, so
\* the update sent to the store sets the modified scalar paths to the
\* in-memory values and pushes the new array element onto the stored array
SaveEmail(stored, local) ==
    [stored EXCEPT !.opened = local.opened,
                   !.openCount = local.openCount,
                   !.lastOpenedAt = local.lastOpenedAt,
                   !.openHistory =
                       Append(stored.openHistory,
                              local.openHistory[Len(local.openHistory)])]

(***************************************************************************)
(* GET /api/track-image/:id                                                *)
(***************************************************************************)
IdleHandler ==
    [ pc |-> "idle", trackingId |-> Null, ip |-> Null, userAgent |-> <<>>,
      isSender |-> FALSE, email |-> None, now |-> 0, pos |-> 0 ]

\* a mutant of Image: the body tells a counted open from the other outcomes
ImageTellingVerdict(isBot, isSender, verdict) ==
    [ kind |-> "pixel", status |-> 200, contentType |-> "image/gif",
      cacheControl |-> "no-cache, no-store, must-revalidate, max-age=0",
      body |-> IF verdict = "counted"
               THEN "R0lGODlhAQABAIAAAAAAAP///yH5BAEAAAAALAAAAAABAAEAAAIBRAA7"
               ELSE "",
      log |-> [bot |-> isBot, sender |-> isSender, verdict |-> verdict] ]

\* the fixed response: a 1x1 gif with cache-disabling headers.  log is what
\* the handler wrote to the console (the PIXEL HIT line and the verdict),
\* it is not part of the response
Image(isBot, isSender, verdict) ==
    [ kind |-> "pixel", status |-> 200, contentType |-> "image/gif",
      cacheControl |-> "no-cache, no-store, must-revalidate, max-age=0",
      body |-> "R0lGODlhAQABAIAAAAAAAP///yH5BAEAAAAALAAAAAABAAEAAAIBRAA7",
      log |-> [bot |-> isBot, sender |-> isSender, verdict |-> verdict] ]

\* catch (error) { res.status(500).send('Error') }
PixelError ==
    [ kind |-> "pixel", status |-> 500, contentType |-> "text/html",
      cacheControl |-> Null, body |-> "Error",
      log |-> [bot |-> FALSE, sender |-> FALSE, verdict |-> "error"] ]

\* a mutant of ShouldLookUp: the sender cookie is not consulted
ShouldLookUpIgnoringSender(isBot, isSender) == ~isBot

\* if (!isBot && !isSender)
ShouldLookUp(isBot, isSender) == ~isBot /\ ~isSender

\* The user agents of the model that the filter rejects (the filter is
\* applied once per user agent instead of once per request).
BotAgents == {ua \in UserAgents : IsBot(ua)}

\* requests that may still record an open, and the opens recorded
InFlight == Cardinality({h \in Slots : handlers[h].pc \in {"found", "save"}})
Recorded == LET RECURSIVE Sum(_)
                Sum(S) == IF S = {} THEN 0
                          ELSE LET id == CHOOSE x \in S : TRUE
                               IN  Len(emails[id].openHistory) + Sum(S \ {id})
            IN  Sum(DOMAIN emails)

\* the slot a new request takes: slots are anonymous, the lowest idle one
FreeSlot(h) == handlers[h].pc = "idle" /\ \A g \in Slots : g < h => handlers[g].pc # "idle"

\* The request arrives: the user agent and the cookie are examined and, for
\* a bot or the sender, the image is returned at once.  Otherwise
\* TrackedEmail.findOne({ trackingId }) is issued and answered by the store.
PixelRequest(h, id, ip, ua, isSender) ==
    /\ FreeSlot(h)
    /\ IF ShouldLookUp(ua \in BotAgents, isSender)
       THEN /\ handlers' = [handlers EXCEPT ![h] =
                   [IdleHandler EXCEPT !.pc = "found", !.trackingId = id, !.ip = ip,
                                       !.userAgent = ua, !.isSender = isSender,
                                       !.email = IF id \in DOMAIN emails
                                                 THEN Some(emails[id]) ELSE None]]
            /\ out' = NoOut
       ELSE /\ out' = Image(ua \in BotAgents, isSender, "skipped")
            /\ UNCHANGED handlers
    /\ UNCHANGED <<emails, clock, query>>
    /\ UNCHANGED adVars

\* The handler resumes with the document: it reads the clock, applies the
\* session lock and either returns the image or modifies the document in
\* memory and issues save()
PixelDecide(h) ==
    /\ handlers[h].pc = "found"
    /\ LET req == handlers[h]
       IN  IF req.email = None
           THEN /\ out' = Image(FALSE, FALSE, "unknown")
                /\ handlers' = [handlers EXCEPT ![h] = IdleHandler]
           ELSE IF SessionLocked(req.email[1], req.ip, clock)
           THEN /\ out' = Image(FALSE, FALSE, "locked")
                /\ handlers' = [handlers EXCEPT ![h] = IdleHandler]
           ELSE /\ handlers' = [handlers EXCEPT
                       ![h].pc = "save",
                       ![h].now = clock,
                       ![h].email = Some(CountOpen(req.email[1], clock, req.ip, req.userAgent))]
                /\ out' = NoOut
    /\ UNCHANGED <<emails, clock, query>>
    /\ UNCHANGED adVars

\* await email.save() is applied by the store.  pos records where in the
\* stored history this request's event landed.
PixelSave(h) ==
    /\ handlers[h].pc = "save"
    /\ LET id == handlers[h].trackingId
       IN  /\ emails' = [emails EXCEPT ![id] = SaveEmail(@, handlers[h].email[1])]
           /\ handlers' = [handlers EXCEPT ![h].pc = "saved",
                                           ![h].pos = Len(emails'[id].openHistory)]
    /\ out' = NoOut
    /\ UNCHANGED <<clock, query>>
    /\ UNCHANGED adVars

\* the handler resumes after save() and returns the image
PixelRespond(h) ==
    /\ handlers[h].pc = "saved"
    /\ out' = Image(FALSE, FALSE, "counted")
    /\ handlers' = [handlers EXCEPT ![h] = IdleHandler]
    /\ UNCHANGED <<emails, clock, query>>
    /\ UNCHANGED adVars

\* The request of a browser that is not the sender arrives and the store
\* rejects TrackedEmail.findOne: the catch block answers 500
PixelLookupFails(ua, isSender) ==
    /\ \E h \in Slots : FreeSlot(h)
    /\ ShouldLookUp(ua \in BotAgents, isSender)
    /\ out' = PixelError
    /\ UNCHANGED <<emails, clock, handlers, query>>
    /\ UNCHANGED adVars

\* the store rejects email.save(): nothing is written and the catch block
\* answers 500
PixelSaveFails(h) ==
    /\ handlers[h].pc = "save"
    /\ out' = PixelError
    /\ handlers' = [handlers EXCEPT ![h] = IdleHandler]
    /\ UNCHANGED <<emails, clock, query>>
    /\ UNCHANGED adVars

\* time passes
Tick ==
    /\ clock < MaxClock
    /\ clock' = clock + 1
    /\ out' = NoOut
    /\ UNCHANGED <<emails, handlers, query>>
    /\ UNCHANGED adVars

(***************************************************************************)
(* POST /api/track/generate                                                *)
(***************************************************************************)
\* finalId = trackingId || uuidv4(): a generated id is one of uuids not yet
\* in use
TrackGenerate(reqId, uuids, parent, sender, recipients, subject) ==
    \E finalId \in (IF reqId # Null THEN {reqId} ELSE uuids \ DOMAIN emails) :
        /\ emails' = InsertEmail(emails,
                        NewEmail(finalId, parent, sender, recipients, subject, clock))
        /\ out' = IF finalId \in DOMAIN emails
                  THEN [kind |-> "generate", status |-> 500, trackingId |-> Null]
                  ELSE [kind |-> "generate", status |-> 200, trackingId |-> finalId]
        /\ UNCHANGED <<clock, handlers, query>>
        /\ UNCHANGED adVars

(***************************************************************************)
(* Helpers of the status query: getCleanSubjectRegex, areRecipientsSame.   *)
(* Subjects and addresses are character sequences over letters, digits,    *)
(* the space, ":" and the two regular-expression metacharacters "." and    *)
(* "?"; "?" occurs only after a character it can quantify.                 *)
(***************************************************************************)
IsSpace(c) == c = " "

\* String.prototype.toLowerCase
LowerCase(s) == [k \in 1..Len(s) |-> ToLower(s[k])]

\* the string without the whitespace \s* consumes at its start
DropSpaces(s) ==
    LET inked == {k \in 1..Len(s) : ~IsSpace(s[k])}
    IN  IF inked = {} THEN <<>>
        ELSE SubSeq(s, CHOOSE k \in inked : \A j \in inked : k <= j, Len(s))

\* String.prototype.trim
Trim(s) ==
    LET inked == {k \in 1..Len(s) : ~IsSpace(s[k])}
    IN  IF inked = {} THEN <<>>
        ELSE SubSeq(s, CHOOSE k \in inked : \A j \in inked : k <= j,
                       CHOOSE k \in inked : \A j \in inked : k >= j)

\* the alternation (Re|Fwd|FW|re|fwd|Aw), matched under the flag i
MarkerWords ==
    { <<"R", "e">>, <<"F", "w", "d">>, <<"F", "W">>,
      <<"r", "e">>, <<"f", "w", "d">>, <<"A", "w">> }

StartsWithCI(s, w) ==
    Len(s) >= Len(w) /\ \A k \in 1..Len(w) : ToLower(s[k]) = ToLower(w[k])

\* the marker words that, followed by a colon, start s
MarkerAt(s) ==
    {w \in MarkerWords : StartsWithCI(s, w) /\ Len(s) > Len(w) /\ s[Len(w) + 1] = ":"}

\* subject.replace(/^(Re|Fwd|FW|re|fwd|Aw):\s*/i, ""): the pattern is
\* anchored and has no flag g, so one marker at most is removed, together
\* with its colon and the whitespace after it
StripLeadingMarker(s) ==
    IF MarkerAt(s) = {} THEN s
    ELSE LET w == CHOOSE w \in MarkerAt(s) : TRUE
         IN  DropSpaces(SubSeq(s, Len(w) + 2, Len(s)))

\* getCleanSubjectRegex: null for a missing or empty subject, otherwise
\* new RegExp(`^((Re|Fwd|FW|re|fwd|Aw):\\s*)*${clean}$`, 'i'), in which
\* body is the text of clean, placed in the pattern as it is
GetCleanSubjectRegex(subject) ==
    IF subject = <<>> THEN None
    ELSE Some([body |-> Trim(StripLeadingMarker(subject))])

\* p is matched by ((Re|Fwd|FW|re|fwd|Aw):\s*)*
RECURSIVE MarkerRun(_)
MarkerRun(p) ==
    \/ p = <<>>
    \/ \E w \in MarkerAt(p) :
         \E n \in 0..(Len(p) - Len(w) - 1) :
            /\ \A k \in 1..n : IsSpace(p[Len(w) + 1 + k])
            /\ MarkerRun(SubSeq(p, Len(w) + 2 + n, Len(p)))

\* one pattern character against one character, under the flag i: "." is
\* any character
AtomMatches(a, c) == a = "." \/ ToLower(a) = ToLower(c)

\* the pattern text pat matches all of t: a character followed by "?" is
\* optional
RECURSIVE BodyMatches(_, _)
BodyMatches(pat, t) ==
    IF pat = <<>> THEN t = <<>>
    ELSE IF Len(pat) >= 2 /\ pat[2] = "?"
    THEN \/ BodyMatches(SubSeq(pat, 3, Len(pat)), t)
         \/ /\ t # <<>>
            /\ AtomMatches(pat[1], t[1])
            /\ BodyMatches(SubSeq(pat, 3, Len(pat)), Tail(t))
    ELSE /\ t # <<>>
         /\ AtomMatches(pat[1], t[1])
         /\ BodyMatches(Tail(pat), Tail(t))

\* subjectRegex.test(s), which is also the store's { $regex: subjectRegex }
RegexTest(re, s) ==
    \E k \in 0..Len(s) :
        /\ MarkerRun(SubSeq(s, 1, k))
        /\ BodyMatches(re.body, SubSeq(s, k + 1, Len(s)))

\* a mutant of AreRecipientsSame: the addresses are trimmed but not
\* lowercased
AreRecipientsSameCaseSensitive(listA, listB) ==
    IF listA = None \/ listB = None THEN FALSE
    ELSE LET setA == {Trim(listA[1][k]) : k \in 1..Len(listA[1])}
             setB == {Trim(listB[1][k]) : k \in 1..Len(listB[1])}
         IN  \E email \in setA : email \in setB

\* areRecipientsSame: a list is None when missing, Some(list) otherwise
AreRecipientsSame(listA, listB) ==
    IF listA = None \/ listB = None THEN FALSE
    ELSE LET setA == {Trim(LowerCase(listA[1][k])) : k \in 1..Len(listA[1])}
             setB == {Trim(LowerCase(listB[1][k])) : k \in 1..Len(listB[1])}
         IN  \E email \in setA : email \in setB

\* the helpers applied to arguments: the return value is the step's output
CallGetCleanSubjectRegex(markers, base, stored) ==
    /\ LET subject == markers \o base
           re == GetCleanSubjectRegex(subject)
       IN  out' = [ kind |-> "return", fn |-> "getCleanSubjectRegex",
                    markers |-> markers, base |-> base, subject |-> subject,
                    regex |-> re, stored |-> stored,
                    test |-> IF re = None THEN FALSE ELSE RegexTest(re[1], stored) ]
    /\ UNCHANGED trackVars
    /\ UNCHANGED adVars

CallAreRecipientsSame(listA, listB) ==
    /\ out' = [ kind |-> "return", fn |-> "areRecipientsSame",
                listA |-> listA, listB |-> listB,
                result |-> AreRecipientsSame(listA, listB) ]
    /\ UNCHANGED trackVars
    /\ UNCHANGED adVars

(***************************************************************************)
(* GET /api/check-status                                                   *)
(***************************************************************************)
IdleQuery == [pc |-> "idle", trackingId |-> Null, subject |-> <<>>, rootId |-> Null]

\* the orders in which the store may return the documents S
Perms(S) ==
    {f \in [1..Cardinality(S) -> S] : \A i, j \in 1..Cardinality(S) : i # j => f[i] # f[j]}

\* .sort({ createdAt: 1 }): documents with equal createdAt come in any order
SortAscending(store, S) ==
    {f \in Perms(S) :
        \A i, j \in DOMAIN f : i < j => store[f[i]].createdAt <= store[f[j]].createdAt}

\* .sort({ createdAt: -1 })
SortDescending(store, S) ==
    {f \in Perms(S) :
        \A i, j \in DOMAIN f : i < j => store[f[i]].createdAt >= store[f[j]].createdAt}

\* Array.prototype.reverse
Reverse(seq) == [k \in 1..Len(seq) |-> seq[Len(seq) + 1 - k]]

Docs(store, order) == [k \in 1..Len(order) |-> store[order[k]]]

\* a mutant of RootId: the parent link of the target is not followed
RootIdOfSelf(target) == target.trackingId

\* const rootId = target.parentId || target.trackingId
RootId(target) ==
    IF target.parentId # Null THEN target.parentId ELSE target.trackingId

\* a mutant of Family: the replies to the replies belong to the family too
FamilyWithDescendants(store, rootId) ==
    {id \in DOMAIN store :
        \/ store[id].trackingId = rootId
        \/ store[id].parentId = rootId
        \/ /\ store[id].parentId \in DOMAIN store
           /\ store[store[id].parentId].parentId = rootId}

\* a mutant of Family: the root itself is left out
FamilyChildrenOnly(store, rootId) ==
    {id \in DOMAIN store : store[id].parentId = rootId}

\* { $or: [{ trackingId: rootId }, { parentId: rootId }] }
Family(store, rootId) ==
    {id \in DOMAIN store : store[id].trackingId = rootId \/ store[id].parentId = rootId}

\* a mutant of Matching: every message matches
MatchingAll(store, re) == DOMAIN store

\* { subject: { $regex: subjectRegex } }
Matching(store, re) == {id \in DOMAIN store : RegexTest(re, store[id].subject)}

\* a mutant of SubjectFallback: a given subject is always consulted
SubjectFallbackAlways(found, subject) == subject # <<>>

\* if (emails.length === 0 && subject)
SubjectFallback(found, subject) == Len(found) = 0 /\ subject # <<>>

\* a mutant of ThreadBreakdown: isReply looks at parentId only
ThreadBreakdownByParent(list) ==
    [k \in 1..Len(list) |->
        [ index |-> k,
          date |-> list[k].createdAt,
          openCount |-> list[k].openCount,
          isReply |-> list[k].parentId # Null,
          lastRead |-> IF Len(list[k].openHistory) > 0
                       THEN Some(list[k].openHistory[Len(list[k].openHistory)].timestamp)
                       ELSE None ]]

\* emails.map((email, index) => ({ index: index + 1, ... }))
ThreadBreakdown(list) ==
    [k \in 1..Len(list) |->
        [ index |-> k,
          date |-> list[k].createdAt,
          openCount |-> list[k].openCount,
          isReply |-> (list[k].parentId # Null) \/ k > 1,
          lastRead |-> IF Len(list[k].openHistory) > 0
                       THEN Some(list[k].openHistory[Len(list[k].openHistory)].timestamp)
                       ELSE None ]]

\* a mutant of TotalOpens: the number of messages opened at least once
RECURSIVE TotalOpened(_)
TotalOpened(list) ==
    IF list = <<>> THEN 0
    ELSE (IF list[1].openCount > 0 THEN 1 ELSE 0) + TotalOpened(Tail(list))

\* emails.reduce((acc, email) => acc + email.openCount, 0)
RECURSIVE TotalOpens(_)
TotalOpens(list) ==
    IF list = <<>> THEN 0 ELSE list[1].openCount + TotalOpens(Tail(list))

\* a mutant of Latest: the headline is taken from the oldest message
Oldest(list) == list[1]

\* const latest = emails[emails.length - 1]
Latest(list) == list[Len(list)]

\* res.json(responseData).  trace is not part of the response: it records
\* the request's parameters, the strategy that filled the local array
\* emails and the trackingIds of that array
StatusResponse(list, req, strategy) ==
    LET trace == [ trackingId |-> req.trackingId, subject |-> req.subject,
                   strategy |-> strategy,
                   thread |-> [k \in 1..Len(list) |-> list[k].trackingId] ]
    IN  IF Len(list) > 0
        THEN [ kind |-> "status", status |-> 200, found |-> TRUE,
               opened |-> Latest(list).opened,
               openCount |-> Latest(list).openCount,
               totalThreadOpens |-> TotalOpens(list),
               threadBreakdown |-> ThreadBreakdown(list),
               trace |-> trace ]
        ELSE [ kind |-> "status", status |-> 200, found |-> FALSE, trace |-> trace ]

\* The request arrives.  With a trackingId, TrackedEmail.findOne is issued
\* and answered; for a known id the handler computes rootId and issues the
\* find for the family.  With no target it issues the find by subject if a
\* subject is given, and answers { found: false } otherwise.
StatusRequest(trackingId, subject) ==
    /\ query.pc = "idle"
    /\ LET req == [IdleQuery EXCEPT !.trackingId = trackingId, !.subject = subject]
       IN  IF trackingId # Null /\ trackingId \in DOMAIN emails
           THEN /\ query' = [req EXCEPT !.pc = "family",
                                        !.rootId = RootId(emails[trackingId])]
                /\ out' = NoOut
           ELSE IF SubjectFallback(<<>>, subject)
           THEN /\ query' = [req EXCEPT !.pc = "subject"]
                /\ out' = NoOut
           ELSE /\ query' = query
                /\ out' = StatusResponse(<<>>, req, "none")
    /\ UNCHANGED <<emails, clock, handlers>>
    /\ UNCHANGED adVars

\* the find for the family is answered, oldest first; the handler answers
\* with the family, or issues the find by subject
StatusFamily ==
    /\ query.pc = "family"
    /\ \E order \in SortAscending(emails, Family(emails, query.rootId)) :
          LET found == Docs(emails, order)
          IN  IF SubjectFallback(found, query.subject)
              THEN /\ query' = [query EXCEPT !.pc = "subject"]
                   /\ out' = NoOut
              ELSE /\ query' = IdleQuery
                   /\ out' = StatusResponse(found, query, "A")
    /\ UNCHANGED <<emails, clock, handlers>>
    /\ UNCHANGED adVars

\* the find by subject is answered, newest first; the handler reverses the
\* cluster and answers with it
StatusSubject ==
    /\ query.pc = "subject"
    /\ \E order \in SortDescending(emails,
                        Matching(emails, GetCleanSubjectRegex(query.subject)[1])) :
          LET rawEmails == Docs(emails, order)
              list == IF Len(rawEmails) > 0 THEN Reverse(rawEmails) ELSE <<>>
          IN  out' = StatusResponse(list, query, "B")
    /\ query' = IdleQuery
    /\ UNCHANGED <<emails, clock, handlers>>
    /\ UNCHANGED adVars

(***************************************************************************)
(* Ads: adSchema, the admin routes and GET /api/ads/serve.                 *)
(* An _id is never reused: a deleted ad stays in the model's collection    *)
(* with removed = TRUE, which stands for "no such document".               *)
(***************************************************************************)
FallbackName == "VITSN Innovations"
FallbackMaxViews == 999999999
BasicQuota == 1000
PremiumQuota == 10000
UltraQuota == 100000

Plans == {"basic", "premium", "ultra"}

ImageOf(clientName) == <<"image of", clientName>>

NewAd(clientName, plan, maxViews) ==
    [ clientName |-> clientName, imageUrl |-> ImageOf(clientName), adPlan |-> plan,
      maxViews |-> maxViews, currentViews |-> 0, isActive |-> TRUE, removed |-> FALSE ]

\* initializeSystem: the fallback ad is created when it does not exist
FallbackAd == NewAd(FallbackName, "ultra", FallbackMaxViews)

\* let maxViews = adPlan === 'premium' ? 10000 : (adPlan === 'ultra' ? 100000 : 1000)
PlanQuota(plan) ==
    IF plan = "premium" THEN PremiumQuota
    ELSE IF plan = "ultra" THEN UltraQuota
    ELSE BasicQuota

IdleAdReq == [pc |-> "idle", id |-> Null, ad |-> None]
IdleAdmin == [pc |-> "idle", id |-> Null, isActive |-> FALSE, ops |-> 0]

\* the documents of the collection
Live(store) == {id \in DOMAIN store : ~store[id].removed}

\* a mutant of Eligible: the view cap is not part of the $match stage
EligibleIgnoringCap(store) ==
    { id \in Live(store) :
        /\ store[id].isActive
        /\ store[id].clientName # FallbackName }

\* the $match stage of the aggregate
Eligible(store) ==
    { id \in Live(store) :
        /\ store[id].isActive
        /\ store[id].clientName # FallbackName
        /\ store[id].currentViews < store[id].maxViews }

\* Ad.updateOne({ _id }, { $inc: { currentViews: 1 } }): one atomic update
\* of the stored counter, which matches nothing when the ad has been deleted
IncViews(store, id) ==
    IF id \in Live(store)
    THEN [store EXCEPT ![id].currentViews = @ + 1]
    ELSE store

\* a mutant of Charge: every served ad is charged
ChargeAlways(store, ad, id) == IncViews(store, id)

\* if (ad.clientName !== "VITSN Innovations") await Ad.updateOne(...)
Charge(store, ad, id) ==
    IF ad.clientName # FallbackName THEN IncViews(store, id) ELSE store

AdResponse(clientName, imageUrl) ==
    [ kind |-> "ad", status |-> 200, found |-> TRUE,
      clientName |-> clientName, imageUrl |-> imageUrl ]

\* catch (error) { res.status(500).json({ error: 'Error serving ad' }) }
AdError == [kind |-> "ad", status |-> 500, found |-> FALSE, error |-> "Error serving ad"]

\* res.json({ found: true, clientName: "VITSN", imageUrl: ... }): the answer
\* built into the handler, used when no document is found
BuiltInAd == AdResponse("VITSN", ImageOf("Ads"))

AdminResponse(status) == [kind |-> "admin", status |-> status]

\* the slot a new request takes: slots are anonymous, the lowest idle one
FreeAdSlot(h) == adReqs[h].pc = "idle" /\ \A g \in AdSlots : g < h => adReqs[g].pc # "idle"

\* the aggregate is answered by the store: one eligible paying ad drawn at
\* random, or none, in which case findOne for the fallback ad is issued
AdAggregate(h) ==
    /\ FreeAdSlot(h)
    /\ served < MaxServes
    /\ served' = served + 1
    /\ IF Eligible(ads) # {}
       THEN \E id \in Eligible(ads) :
               adReqs' = [adReqs EXCEPT ![h] = [pc |-> "picked", id |-> id, ad |-> Some(ads[id])]]
       ELSE adReqs' = [adReqs EXCEPT ![h].pc = "findFallback"]
    /\ out' = NoOut
    /\ UNCHANGED <<ads, admin>>
    /\ UNCHANGED trackVars

\* Ad.findOne({ clientName: "VITSN Innovations" }) is answered; the fallback
\* ad is returned without an increment, and a built-in answer when no such
\* document exists
AdFindFallback(h) ==
    /\ adReqs[h].pc = "findFallback"
    /\ LET found == {id \in Live(ads) : ads[id].clientName = FallbackName}
       IN  IF found # {}
           THEN \E id \in found :
                   /\ ads' = Charge(ads, ads[id], id)
                   /\ out' = AdResponse(ads[id].clientName, ads[id].imageUrl)
           ELSE /\ ads' = ads
                /\ out' = BuiltInAd
    /\ adReqs' = [adReqs EXCEPT ![h] = IdleAdReq]
    /\ UNCHANGED <<served, admin>>
    /\ UNCHANGED trackVars

\* the paying ad is charged and returned
AdIncrement(h) ==
    /\ adReqs[h].pc = "picked"
    /\ ads' = Charge(ads, adReqs[h].ad[1], adReqs[h].id)
    /\ out' = AdResponse(adReqs[h].ad[1].clientName, adReqs[h].ad[1].imageUrl)
    /\ adReqs' = [adReqs EXCEPT ![h] = IdleAdReq]
    /\ UNCHANGED <<served, admin>>
    /\ UNCHANGED trackVars

\* the aggregate is rejected by the store: the catch block answers 500
AdAggregateFails(h) ==
    /\ FreeAdSlot(h)
    /\ served < MaxServes
    /\ served' = served + 1
    /\ out' = AdError
    /\ UNCHANGED <<ads, adReqs, admin>>
    /\ UNCHANGED trackVars

\* the awaited findOne or updateOne is rejected by the store: nothing is
\* written and the catch block answers 500
AdStoreFails(h) ==
    /\ adReqs[h].pc \in {"findFallback", "picked"}
    /\ out' = AdError
    /\ adReqs' = [adReqs EXCEPT ![h] = IdleAdReq]
    /\ UNCHANGED <<ads, served, admin>>
    /\ UNCHANGED trackVars

\* POST /api/admin/ads: the new document gets an _id never used before
AdminCreateAd(clientName, plan) ==
    /\ admin.ops < MaxAdminOps
    /\ Cardinality(DOMAIN ads) < Len(AdIds)
    /\ LET id == AdIds[Cardinality(DOMAIN ads) + 1]
       IN  ads' = [a \in DOMAIN ads \cup {id} |->
                     IF a = id THEN NewAd(clientName, plan, PlanQuota(plan)) ELSE ads[a]]
    /\ admin' = [admin EXCEPT !.ops = @ + 1]
    /\ out' = AdminResponse(200)
    /\ UNCHANGED <<adReqs, served>>
    /\ UNCHANGED trackVars

\* DELETE /api/admin/ads/:id
AdminDeleteAd(id) ==
    /\ admin.ops < MaxAdminOps
    /\ id \in DOMAIN ads
    /\ ads' = [ads EXCEPT ![id].removed = TRUE]
    /\ admin' = [admin EXCEPT !.ops = @ + 1]
    /\ out' = AdminResponse(200)
    /\ UNCHANGED <<adReqs, served>>
    /\ UNCHANGED trackVars

\* PATCH /api/admin/ads/:id/toggle: Ad.findById is answered
AdminToggleFind(id) ==
    /\ admin.pc = "idle"
    /\ admin.ops < MaxAdminOps
    /\ id \in DOMAIN ads
    /\ IF id \in Live(ads)
       THEN /\ admin' = [pc |-> "loaded", id |-> id, isActive |-> ads[id].isActive,
                         ops |-> admin.ops + 1]
            /\ out' = NoOut
       ELSE /\ admin' = [admin EXCEPT !.ops = @ + 1]
            /\ out' = AdminResponse(404)
    /\ UNCHANGED <<ads, adReqs, served>>
    /\ UNCHANGED trackVars

\* ad.isActive = !ad.isActive; await ad.save(): sets the one modified path;
\* when the ad has been deleted meanwhile save() rejects, nothing is stored
\* and no response is written
AdminToggleSave ==
    /\ admin.pc = "loaded"
    /\ IF admin.id \in Live(ads)
       THEN /\ ads' = [ads EXCEPT ![admin.id].isActive = ~admin.isActive]
            /\ out' = AdminResponse(200)
       ELSE /\ ads' = ads
            /\ out' = NoOut
    /\ admin' = [IdleAdmin EXCEPT !.ops = admin.ops]
    /\ UNCHANGED <<adReqs, served>>
    /\ UNCHANGED trackVars

(***************************************************************************)
(* Specifications                                                          *)
(***************************************************************************)
Sender == "sender@x.com"
RecipientsA == <<"a@x.com">>
SubjectT == <<"T">>

InitTrack ==
    /\ emails = <<>>
    /\ clock = 0
    /\ handlers = [h \in Slots |-> IdleHandler]
    /\ query = IdleQuery

InitAds ==
    /\ adReqs = [h \in AdSlots |-> IdleAdReq]
    /\ served = 0
    /\ admin = IdleAdmin

\* the state after start-up: no message, the fallback ad only
Init ==
    /\ InitTrack
    /\ InitAds
    /\ ads = [id \in {"fb"} |-> FallbackAd]
    /\ out = NoOut

\* the steps of the tracking engine, for messages Ids and user agents UAs,
\* while fewer than cap opens are recorded or may still be recorded
NextTrack(Ids, UAs, cap) ==
    \/ Tick
    \/ \E reqId \in Ids \cup {Null} :
           TrackGenerate(reqId, Ids, Null, Sender, RecipientsA, SubjectT)
    \/ \E h \in Slots, id \in Ids, ip \in Ips, ua \in UAs, isSender \in BOOLEAN :
           /\ Recorded + InFlight < cap
           /\ PixelRequest(h, id, ip, ua, isSender)
    \/ \E h \in Slots : PixelDecide(h)
    \/ \E h \in Slots : PixelSave(h)
    \/ \E h \in Slots : PixelRespond(h)

\* registration and pixel fetches, by browsers, bots and the sender, for
\* two messages
Next == NextTrack(MsgIds, {UAMozilla, UAGoogleBot, UASpider}, MaxOpens - 1)

Spec == Init /\ [][Next]_vars

\* overlapping pixel fetches of browsers for one message
NextRace == NextTrack({"m1"}, {UAMozilla}, MaxOpens)

SpecRace == Init /\ [][NextRace]_vars

\* pixel fetches through a mail provider's image proxy
NextProxy == NextTrack({"m1"}, {UAGoogleProxy, UAGoogleBot}, MaxOpens - 1)

SpecProxy == Init /\ [][NextProxy]_vars

\* a state the running service reaches: a basic-plan ad that has been
\* served up to NearCap views short of its quota
InitNearCap ==
    /\ InitTrack
    /\ InitAds
    /\ out = NoOut
    /\ \E v \in (BasicQuota - NearCap)..BasicQuota :
           ads = [id \in {"fb", "a1"} |->
                     IF id = "fb" THEN FallbackAd
                     ELSE [NewAd("ClientA", "basic", BasicQuota) EXCEPT !.currentViews = v]]

\* the ad allocator and the admin routes that change the Ad collection
NextAds ==
    \/ \E h \in AdSlots : AdAggregate(h)
    \/ \E h \in AdSlots : AdFindFallback(h)
    \/ \E h \in AdSlots : AdIncrement(h)
    \/ \E h \in AdSlots : AdAggregateFails(h)
    \/ \E h \in AdSlots : AdStoreFails(h)
    \/ \E plan \in Plans : AdminCreateAd("ClientB", plan)
    \/ \E id \in DOMAIN ads : AdminDeleteAd(id)
    \/ \E id \in DOMAIN ads : AdminToggleFind(id)
    \/ AdminToggleSave

SpecAds == InitNearCap /\ [][NextAds]_vars

\* messages of a conversation: ids in the order of registration, two
\* recipient lists with no address in common, and subjects
ThreadIds == <<"r1", "r2", "r3">>
UnknownId == "zz"
RecipientsAlice == << <<"a", "@", "x">> >>
RecipientsBob == << <<"b", "@", "x">> >>
SubjectReT == <<"R", "e", ":", " ", "T">>
SubjectT2 == <<"T", " ", "2">>

\* the body of a registration request
Forms(Parents, Rcpts, Subjects) ==
    [parentId : Parents, recipients : Rcpts, subject : Subjects]

\* registration, sequential pixel fetches of a browser and status queries:
\* the first n of ThreadIds are registered in order, the first one with a
\* body of RootForms and the others with a body of ReplyForms; queries
\* carry an id of QIds and a subject of QSubjects; fetches come from PIps
\* while fewer than cap opens are recorded
NextThread(n, RootForms, ReplyForms, QIds, QSubjects, PIps, cap) ==
    \/ Tick
    \/ \E body \in (IF emails = <<>> THEN RootForms ELSE ReplyForms) :
           /\ Cardinality(DOMAIN emails) < n
           /\ TrackGenerate(ThreadIds[Cardinality(DOMAIN emails) + 1], {},
                            body.parentId, Sender, body.recipients, body.subject)
    \/ \E h \in Slots, id \in DOMAIN emails, ip \in PIps :
           /\ \A g \in Slots : handlers[g].pc = "idle"
           /\ Recorded + InFlight < cap
           /\ PixelRequest(h, id, ip, UAMozilla, FALSE)
    \/ \E h \in Slots : PixelDecide(h)
    \/ \E h \in Slots : PixelSave(h)
    \/ \E h \in Slots : PixelRespond(h)
    \/ \E trackingId \in QIds, subject \in QSubjects : StatusRequest(trackingId, subject)
    \/ StatusFamily
    \/ StatusSubject

\* two messages, linked by parentId or by subject only, and status queries
\* by id, by subject and by both
NextCorrelate ==
    NextThread(2, Forms({Null}, {RecipientsAlice}, {SubjectT, SubjectReT}),
               Forms({Null, "r1"}, {RecipientsAlice, RecipientsBob},
                     {SubjectT, SubjectReT, SubjectT2}),
               {Null, "r1", "r2", UnknownId}, {<<>>, SubjectReT}, {"ip1"},
               MaxThreadOpens - 2)

SpecCorrelate == Init /\ [][NextCorrelate]_vars

\* a root message and its replies, opened up to MaxThreadOpens times, and
\* status queries by id
NextSigma ==
    NextThread(3, Forms({Null}, {RecipientsAlice}, {SubjectT}),
               Forms({Null, "r1"}, {RecipientsAlice}, {SubjectT}),
               {Null, "r3"}, {<<>>, SubjectT}, {"ip1"}, MaxThreadOpens)

SpecSigma == Init /\ [][NextSigma]_vars

\* a chain of replies: each message after the first names no parent, the
\* first message or the second one; the first may name a parent that was
\* never registered
NextChain ==
    NextThread(3, Forms({Null, UnknownId}, {RecipientsAlice}, {SubjectT}),
               Forms({Null, "r1", "r2"}, {RecipientsAlice}, {SubjectT}),
               {Null, "r1", "r2", "r3"}, {<<>>, SubjectT}, {"ip1"},
               MaxThreadOpens - 2)

SpecChain == Init /\ [][NextChain]_vars

\* one message, pixel fetches for it and for an id that names no message,
\* by a browser, a bot and the sender, with store operations that may
\* fail, and status queries
NextFaults ==
    \/ Tick
    \/ TrackGenerate("m1", {}, Null, Sender, RecipientsAlice, SubjectT)
    \/ \E h \in Slots, id \in {"m1", UnknownId}, ip \in Ips,
          ua \in {UAMozilla, UAGoogleBot}, isSender \in BOOLEAN :
           /\ Recorded + InFlight < MaxOpens - 1
           /\ PixelRequest(h, id, ip, ua, isSender)
    \/ \E h \in Slots : PixelDecide(h)
    \/ \E h \in Slots : PixelSave(h)
    \/ \E h \in Slots : PixelRespond(h)
    \/ \E ua \in {UAMozilla, UAGoogleBot}, isSender \in BOOLEAN :
           PixelLookupFails(ua, isSender)
    \/ \E h \in Slots : PixelSaveFails(h)
    \/ \E trackingId \in {Null, "m1", UnknownId}, subject \in {<<>>, SubjectT, SubjectT2} :
           StatusRequest(trackingId, subject)
    \/ StatusFamily
    \/ StatusSubject

SpecFaults == Init /\ [][NextFaults]_vars

\* the arguments the helpers are applied to
MarkerPrefixes ==
    { <<>>,
      <<"R", "e", ":", " ">>,
      <<"A", "w", ":", " ">>,
      <<"F", "W", ":">>,
      <<"R", "e", ":", " ", "F", "w", "d", ":", " ">>,
      <<"f", "w", "d", ":", " ", "R", "E", ":", " ">> }

BaseSubjects ==
    { <<"T">>, <<"T", " ", "2">>, <<"T", ".">>, <<"o", "k", "?">> }

StoredSubjects ==
    {m \o b : m \in MarkerPrefixes, b \in BaseSubjects}
        \cup { <<"T", "2">>, <<"x", "T">>, <<"o", "k">>, <<"o">>, <<"t">>, <<>> }

Addresses ==
    { <<"a", "@", "x">>, <<"A", "@", "X">>, <<" ", "a", "@", "x", " ">>,
      <<"b", "@", "x">>, <<"c", "@", "x">> }

RecipientLists ==
    {None, Some(<<>>)}
        \cup {Some(<<a>>) : a \in Addresses}
        \cup {Some(<<a, b>>) : a \in {<<"b", "@", "x">>}, b \in Addresses}

\* the helpers applied to subjects and recipient lists.  They are pure, so
\* one application per behaviour is all there is to see
NextHelpers ==
    \/ \E markers \in MarkerPrefixes, base \in BaseSubjects, stored \in StoredSubjects :
           out = NoOut /\ CallGetCleanSubjectRegex(markers, base, stored)
    \/ \E listA \in RecipientLists, listB \in RecipientLists :
           out = NoOut /\ CallAreRecipientsSame(listA, listB)

SpecHelpers == Init /\ [][NextHelpers]_vars

(***************************************************************************)
(* Properties                                                              *)
(***************************************************************************)
IsPrefix(s, t) == Len(s) <= Len(t) /\ SubSeq(t, 1, Len(s)) = s

LastOf(seq) == seq[Len(seq)]

\* the length of the stored history when request h loaded the document
\* (for a request that decided to count its open)
LoadedLen(h) == Len(handlers[h].email[1].openHistory) - 1

\* requests g and h for the same message have both recorded an open, and
\* each of them loaded the document before the other one saved
Overlapped(g, h) ==
    /\ g # h
    /\ handlers[g].pc = "saved" /\ handlers[h].pc = "saved"
    /\ handlers[g].trackingId = handlers[h].trackingId
    /\ LoadedLen(g) < handlers[h].pos
    /\ LoadedLen(h) < handlers[g].pos

WithinWindow(t1, t2) ==
    /\ (t1 - t2) * TickSeconds < SessionWindow * 60
    /\ (t2 - t1) * TickSeconds < SessionWindow * 60

OthersIdle(h) == \A g \in Slots \ {h} : handlers[g].pc = "idle"

\* C1: every message's openCount equals the number of entries of its
\* openHistory, in every reachable state.
C1_CountEqualsHistory ==
    \A id \in DOMAIN emails : emails[id].openCount = Len(emails[id].openHistory)

\* C2: two overlapping pixel fetches for the same message from the same IP
\* within the 5-minute window are never both accepted.
C2_AtMostOneAccepted ==
    \A g, h \in Slots :
        ~ ( /\ Overlapped(g, h)
            /\ handlers[g].ip = handlers[h].ip
            /\ WithinWindow(handlers[g].now, handlers[h].now) )

\* C3: for fetches of a browser handled one after another on one message:
\* on a message with no events the fetch is accepted and openCount becomes
\* 1; from the IP of the last event and less than 5 minutes after it the
\* fetch is rejected and nothing changes; from that IP and at least 5
\* minutes after it the fetch is accepted, and an accepted fetch raises
\* openCount by one and appends its event.
C3_SequentialSessionLock ==
    [][ \A h \in Slots :
          LET req == handlers[h]
              id == req.trackingId
          IN  /\ ( /\ req.pc = "found" /\ handlers'[h].pc # "found"
                   /\ OthersIdle(h)
                   /\ id \in DOMAIN emails
                   /\ req.email = Some(emails[id]) )
                 => LET hist == emails[id].openHistory
                    IN  /\ hist = <<>> =>
                              /\ handlers'[h].pc = "save"
                              /\ handlers'[h].email[1].openCount = 1
                        /\ ( /\ hist # <<>>
                             /\ LastOf(hist).ip = req.ip
                             /\ (clock - LastOf(hist).timestamp) * TickSeconds
                                    < SessionWindow * 60 )
                           => handlers'[h].pc = "idle" /\ emails' = emails
                        /\ ( /\ hist # <<>>
                             /\ LastOf(hist).ip = req.ip
                             /\ (clock - LastOf(hist).timestamp) * TickSeconds
                                    >= SessionWindow * 60 )
                           => handlers'[h].pc = "save"
              /\ ( /\ req.pc = "save" /\ handlers'[h].pc = "saved"
                   /\ OthersIdle(h)
                   /\ req.email[1].openCount = emails[id].openCount + 1
                   /\ LoadedLen(h) = Len(emails[id].openHistory) )
                 => /\ emails'[id].openCount = emails[id].openCount + 1
                    /\ emails'[id].openHistory =
                          Append(emails[id].openHistory,
                                 OpenEvent(req.now, req.ip, req.userAgent))
                    /\ emails'[id].opened
    ]_vars

\* C3 witness: a message counted twice, by two fetches from one IP that lie
\* a full window apart, with no request in flight
C3_Witness ==
    /\ \A h \in Slots : handlers[h].pc = "idle"
    /\ \E id \in DOMAIN emails :
          /\ emails[id].openCount = 2
          /\ Len(emails[id].openHistory) = 2
          /\ emails[id].openHistory[1].ip = emails[id].openHistory[2].ip
          /\ (emails[id].openHistory[2].timestamp - emails[id].openHistory[1].timestamp)
                 * TickSeconds >= SessionWindow * 60

\* the user agent contains bot, crawler or spider, in any case
ContainsBotToken(ua) ==
    \E t \in {<<"b", "o", "t">>, <<"c", "r", "a", "w", "l", "e", "r">>,
              <<"s", "p", "i", "d", "e", "r">>} : ContainsCI(ua, t)

BotTokenAgents == {ua \in UserAgents : ContainsBotToken(ua)}
ProxyAgents == {ua \in UserAgents : HasProxySignature(ua)}

\* C4: a pixel fetch whose user agent contains bot, crawler or spider is
\* answered at once, starts no lookup and changes no message; and no step
\* of a request carrying such a user agent changes a message.
C4_BotNeverCounts ==
    [][ /\ ( \E h \in Slots, id \in MsgIds, ip \in Ips, ua \in BotTokenAgents, s \in BOOLEAN :
                PixelRequest(h, id, ip, ua, s) )
           => UNCHANGED <<emails, handlers>> /\ out'.kind = "pixel"
        /\ \A h \in Slots :
              handlers[h].userAgent \in BotTokenAgents /\ handlers'[h] # handlers[h]
              => emails' = emails
    ]_vars

\* C4 witness: a bot's fetch has just been answered while a message with
\* recorded opens is in the store
C4_Witness ==
    /\ out.kind = "pixel" /\ out.log.bot
    /\ \E id \in DOMAIN emails : emails[id].openCount > 0

\* C5: no step of a pixel fetch whose user agent carries a mail-provider
\* proxy signature changes a message.
C5_ProxyNeverCounts ==
    [][ \A h \in Slots :
          /\ handlers'[h] # handlers[h]
          /\ \/ handlers[h].userAgent \in ProxyAgents
             \/ handlers'[h].userAgent \in ProxyAgents
          => emails' = emails
    ]_vars

\* C6: a pixel fetch carrying the sender cookie is answered at once, starts
\* no lookup and leaves the messages and the ads as they are; and no step
\* of a request carrying the cookie changes the store.
C6_SenderLeavesStore ==
    [][ /\ ( \E h \in Slots, id \in MsgIds, ip \in Ips, ua \in UserAgents :
                PixelRequest(h, id, ip, ua, TRUE) )
           => UNCHANGED <<emails, handlers, ads>> /\ out'.kind = "pixel"
        /\ \A h \in Slots :
              handlers[h].isSender /\ handlers'[h] # handlers[h]
              => emails' = emails /\ ads' = ads
    ]_vars

\* C6 witness: the sender's fetch, with a browser's user agent, has just
\* been answered while a message with recorded opens is in the store
C6_Witness ==
    /\ out.kind = "pixel" /\ out.log.sender /\ ~out.log.bot
    /\ \E id \in DOMAIN emails : emails[id].openCount > 0

\* C7: once a message's opened flag is true it is true in every later state.
C7_OpenedStaysTrue ==
    [][ \A id \in DOMAIN emails :
          emails[id].opened => id \in DOMAIN emails' /\ emails'[id].opened
    ]_vars

\* C7 witness: a message is opened while a request that loaded it unopened
\* is about to save
C7_Witness ==
    \E h \in Slots :
        /\ handlers[h].pc = "save"
        /\ handlers[h].email[1].openCount = 1
        /\ emails[handlers[h].trackingId].opened

\* C8: a message's openCount never decreases from one state to the next.
C8_CountNeverDecreases ==
    [][ \A id \in DOMAIN emails : emails'[id].openCount >= emails[id].openCount ]_vars

\* C9: in every step each message's openHistory is extended: the previous
\* history is a prefix of the new one.
C9_HistoryAppendOnly ==
    [][ \A id \in DOMAIN emails :
          /\ id \in DOMAIN emails'
          /\ IsPrefix(emails[id].openHistory, emails'[id].openHistory)
    ]_vars

\* C9 witness: two requests for one message that loaded it before either
\* saved have both saved
C9_Witness ==
    \E g, h \in Slots :
        /\ Overlapped(g, h)
        /\ Len(emails[handlers[g].trackingId].openHistory) >= 2

\* C10: no paying ad's currentViews exceeds its maxViews.
C10_ViewsWithinQuota ==
    \A id \in Live(ads) :
        ads[id].clientName # FallbackName => ads[id].currentViews <= ads[id].maxViews

\* C11: no step changes the currentViews of an ad whose clientName is the
\* fallback name, whether the step serves it, serves another ad or is a
\* step of the admin.
C11_FallbackNeverCharged ==
    [][ \A id \in DOMAIN ads :
          ads[id].clientName = FallbackName
          => id \in DOMAIN ads' /\ ads'[id].currentViews = ads[id].currentViews
    ]_vars

\* C11 witness: the fallback ad has just been served, its counter still 0,
\* after a paying ad was served up to its quota
C11_Witness ==
    /\ out = AdResponse(FallbackName, ImageOf(FallbackName))
    /\ \E id \in Live(ads) :
          ads[id].clientName = FallbackName /\ ads[id].currentViews = 0
    /\ \E id \in Live(ads) :
          ads[id].clientName # FallbackName /\ ads[id].currentViews >= ads[id].maxViews

\* a stored paying ad that may be selected
PayingAndOpen(ad) ==
    /\ ~ad.removed
    /\ ad.isActive
    /\ ad.clientName # FallbackName
    /\ ad.currentViews < ad.maxViews

\* the selection step of a request: a paying ad is picked only if it is
\* active and below its cap at that moment, and the request turns to the
\* fallback ad exactly when there is no such ad
SelectsPayingIfAny(h) ==
    adReqs[h].pc = "idle" /\ adReqs'[h].pc # "idle"
    => /\ adReqs'[h].pc = "picked"
          => /\ adReqs'[h].id \in DOMAIN ads
             /\ PayingAndOpen(ads[adReqs'[h].id])
             /\ adReqs'[h].ad = Some(ads[adReqs'[h].id])
       /\ adReqs'[h].pc = "findFallback"
          <=> \A id \in DOMAIN ads : ~PayingAndOpen(ads[id])

\* the request answers with the ad it picked
AnswersPicked(h) ==
    adReqs[h].pc = "picked" /\ adReqs'[h].pc = "idle" /\ out'.status = 200
    => /\ out'.clientName = adReqs[h].ad[1].clientName
       /\ out'.imageUrl = adReqs[h].ad[1].imageUrl
       /\ out'.clientName # FallbackName

Linked ==
    /\ {"r1", "r2"} \subseteq DOMAIN emails
    /\ emails["r1"].parentId = Null
    /\ emails["r2"].parentId = "r1"
    /\ emails["r1"].createdAt < emails["r2"].createdAt
    /\ \A id \in DOMAIN emails :
          id \notin {"r1", "r2"} => emails[id].parentId # "r1"

\* C14: for a root r1 and its later reply r2, a status query for r1 or for
\* r2, with or without a subject, looks up the family of r1 and answers
\* with the breakdown [r1, r2], oldest first, isReply false for r1 and true
\* for r2.
C14_FamilyByParentId ==
    [][ /\ ( /\ Linked
             /\ \E id \in {"r1", "r2"}, subject \in {<<>>, SubjectReT} :
                   StatusRequest(id, subject) )
           => query'.pc = "family" /\ query'.rootId = "r1"
        /\ ( /\ Linked
             /\ query.pc = "family" /\ query.rootId = "r1" /\ query' # query )
           => /\ out'.kind = "status" /\ out'.status = 200 /\ out'.found
              /\ out'.trace.thread = <<"r1", "r2">>
              /\ Len(out'.threadBreakdown) = 2
              /\ out'.threadBreakdown[1].index = 1
              /\ out'.threadBreakdown[2].index = 2
              /\ out'.threadBreakdown[1].date = emails["r1"].createdAt
              /\ out'.threadBreakdown[2].date = emails["r2"].createdAt
              /\ ~out'.threadBreakdown[1].isReply
              /\ out'.threadBreakdown[2].isReply
    ]_vars

\* C14 witness: the query for r2 has just been answered with [r1, r2]
C14_Witness ==
    /\ Linked
    /\ out.kind = "status" /\ out.found
    /\ out.trace.trackingId = "r2"
    /\ out.trace.thread = <<"r1", "r2">>
    /\ ~out.threadBreakdown[1].isReply /\ out.threadBreakdown[2].isReply

\* the ids of a thread, as a set
Range(seq) == {seq[k] : k \in 1..Len(seq)}

Ascending(thread) ==
    \A i, j \in 1..Len(thread) :
        i < j => emails[thread[i]].createdAt <= emails[thread[j]].createdAt

C16_SubjectThreadSharesRecipients ==
    out.kind = "status" /\ out.found /\ out.trace.strategy = "B"
    => LET thread == out.trace.thread
           latest == emails[thread[Len(thread)]]
       IN  \A k \in 1..Len(thread) :
              AreRecipientsSame(Some(emails[thread[k]].recipientEmails),
                                Some(latest.recipientEmails))

\* C17: for a base subject B prefixed with any sequence of reply/forward
\* markers, the canonical subject of the matcher is B, and the matcher
\* accepts a subject if and only if the matcher built from B accepts it.
C17_StripsEveryLeadingMarker ==
    out.kind = "return" /\ out.fn = "getCleanSubjectRegex"
    => /\ out.regex = Some([body |-> out.base])
       /\ out.test <=> RegexTest([body |-> out.base], out.stored)

EqualCI(s, t) == Len(s) = Len(t) /\ \A k \in 1..Len(s) : ToLower(s[k]) = ToLower(t[k])

\* s is zero or more markers followed by exactly B, ignoring case
MarkersThenExactly(s, B) ==
    \E k \in 0..Len(s) :
        MarkerRun(SubSeq(s, 1, k)) /\ EqualCI(SubSeq(s, k + 1, Len(s)), B)

\* C18: the matcher built for canonical subject B accepts a subject if and
\* only if it is zero or more markers followed by exactly B, ignoring case.
C18_AcceptsExactlyCanonical ==
    out.kind = "return" /\ out.fn = "getCleanSubjectRegex" /\ out.regex # None
    => (out.test <=> MarkersThenExactly(out.stored, out.regex[1].body))

SameAddress(x, y) == EqualCI(Trim(x), Trim(y))

\* C19: areRecipientsSame(A, B) is true if and only if both lists are
\* present and some address of A equals some address of B after trimming
\* and ignoring case; it is symmetric, and false when a list is empty or
\* missing.
C19_RecipientOverlap ==
    out.kind = "return" /\ out.fn = "areRecipientsSame"
    => /\ out.result
          <=> /\ out.listA # None /\ out.listB # None
              /\ \E i \in 1..Len(out.listA[1]), j \in 1..Len(out.listB[1]) :
                    SameAddress(out.listA[1][i], out.listB[1][j])
       /\ out.result = AreRecipientsSame(out.listB, out.listA)
       /\ ( \/ out.listA \in {None, Some(<<>>)}
            \/ out.listB \in {None, Some(<<>>)} ) => ~out.result

\* C19 witness: ["a@x"] and ["b@x", "A@X"] overlap
C19_Witness ==
    /\ out.kind = "return" /\ out.fn = "areRecipientsSame"
    /\ out.listA = Some(<< <<"a", "@", "x">> >>)
    /\ out.listB = Some(<< <<"b", "@", "x">>, <<"A", "@", "X">> >>)
    /\ out.result

RECURSIVE SumOfCounts(_)
SumOfCounts(breakdown) ==
    IF breakdown = <<>> THEN 0
    ELSE breakdown[1].openCount + SumOfCounts(Tail(breakdown))

\* C20: in every status answer that finds a thread, threadBreakdown lists
\* the messages of the thread with their stored openCount,
\* totalThreadOpens is the sum of the openCount entries of threadBreakdown,
\* and it is at least the headline openCount.
C20_TotalIsSumOfBreakdown ==
    out.kind = "status" /\ out.found
    => /\ Len(out.threadBreakdown) = Len(out.trace.thread)
       /\ \A k \in 1..Len(out.threadBreakdown) :
             out.threadBreakdown[k].openCount = emails[out.trace.thread[k]].openCount
       /\ out.totalThreadOpens = SumOfCounts(out.threadBreakdown)
       /\ out.totalThreadOpens >= out.openCount

\* C20 witness: a thread with openCounts [1, 0, 2] is answered with total 3
C20_Witness ==
    /\ out.kind = "status" /\ out.found
    /\ Len(out.threadBreakdown) = 3
    /\ out.threadBreakdown[1].openCount = 1
    /\ out.threadBreakdown[2].openCount = 0
    /\ out.threadBreakdown[3].openCount = 2
    /\ out.totalThreadOpens = 3

\* C21: in every status answer that finds a thread, by id or by subject,
\* the last message of the thread has the greatest createdAt of the thread
\* and the headline opened and openCount are the stored fields of that
\* message.
C21_HeadlineIsLatest ==
    out.kind = "status" /\ out.found
    => LET thread == out.trace.thread
           last == emails[thread[Len(thread)]]
       IN  /\ \A k \in 1..Len(thread) : last.createdAt >= emails[thread[k]].createdAt
           /\ out.opened = last.opened
           /\ out.openCount = last.openCount

\* C21 witness: a thread found by subject whose latest message is unopened
\* while an older message of the thread has been opened
C21_Witness ==
    /\ out.kind = "status" /\ out.found
    /\ out.trace.strategy = "B"
    /\ Len(out.trace.thread) >= 2
    /\ ~out.opened /\ out.openCount = 0
    /\ emails[out.trace.thread[1]].opened

\* no stored subject is accepted by the matcher of the query's subject
NoSubjectMatches(subject) ==
    \A id \in DOMAIN emails :
        ~RegexTest(GetCleanSubjectRegex(subject)[1], emails[id].subject)

C23_ImageDespiteStoreFailure ==
    out.kind = "pixel" => out.status = 200 /\ out.contentType = "image/gif"

\* C24: the answer to a pixel fetch that was counted, skipped as bot or
\* sender, session-locked or addressed to an unknown id is one fixed
\* response: status, headers and body do not depend on the outcome.
C24_SameImageForEveryOutcome ==
    out.kind = "pixel" /\ out.log.verdict \in {"counted", "skipped", "locked", "unknown"}
    => /\ out.status = 200
       /\ out.contentType = "image/gif"
       /\ out.cacheControl = "no-cache, no-store, must-revalidate, max-age=0"
       /\ out.body = "R0lGODlhAQABAIAAAAAAAP///yH5BAEAAAAALAAAAAABAAEAAAIBRAA7"

\* C24 witness: a fetch rejected by the session lock has just been answered
C24_Witness ==
    /\ out.kind = "pixel" /\ out.log.verdict = "locked"
    /\ \E id \in DOMAIN emails : emails[id].openCount > 0

\* C25: the step that records an accepted pixel fetch on message m appends
\* the fetch's event to m's openHistory, raises m's openCount by exactly 1,
\* sets m.opened, and leaves every other message and every ad unchanged.
C25_AcceptRecordsOneOpen ==
    [][ \A h \in Slots :
          handlers[h].pc = "save" /\ handlers'[h].pc = "saved"
          => LET req == handlers[h]
                 m == req.trackingId
             IN  /\ emails'[m].openHistory =
                        Append(emails[m].openHistory,
                               OpenEvent(req.now, req.ip, req.userAgent))
                 /\ emails'[m].openCount = emails[m].openCount + 1
                 /\ emails'[m].opened
                 /\ DOMAIN emails' = DOMAIN emails
                 /\ \A id \in DOMAIN emails \ {m} : emails'[id] = emails[id]
                 /\ ads' = ads
    ]_vars

\* C26: a fetch of a browser that is not the sender, for an existing
\* message, is rejected by the session lock if and only if the history it
\* loaded is non-empty, its IP is the IP of the last event of that history
\* and less than 5 minutes have passed since that event; otherwise it is
\* accepted, whatever earlier events the history holds.
C26_LockLooksAtLastEventOnly ==
    [][ \A h \in Slots :
          ( /\ handlers[h].pc = "found" /\ handlers[h].email # None
            /\ handlers'[h] # handlers[h] )
          => LET req == handlers[h]
                 hist == req.email[1].openHistory
                 locked == /\ hist # <<>>
                           /\ LastOf(hist).ip = req.ip
                           /\ (clock - LastOf(hist).timestamp) * TickSeconds
                                  < SessionWindow * 60
             IN  /\ locked <=> /\ handlers'[h].pc = "idle"
                               /\ out'.kind = "pixel" /\ out'.log.verdict = "locked"
                               /\ emails' = emails
                 /\ ~locked <=> /\ handlers'[h].pc = "save"
                                /\ handlers'[h].now = clock
    ]_vars

\* C26 witness: a fetch is accepted although the first event of the history
\* it loaded came from its IP inside the window, because the last event
\* came from another IP
C26_Witness ==
    \E h \in Slots :
        /\ handlers[h].pc = "save"
        /\ LoadedLen(h) = 2
        /\ LET req == handlers[h]
               hist == req.email[1].openHistory
           IN  /\ hist[1].ip = req.ip
               /\ hist[2].ip # req.ip
               /\ (req.now - hist[1].timestamp) * TickSeconds < SessionWindow * 60

\* r1 is a root, r2 a reply to r1 and r3 a reply to r2
Chain ==
    /\ {"r1", "r2", "r3"} \subseteq DOMAIN emails
    /\ emails["r1"].parentId = Null
    /\ emails["r2"].parentId = "r1"
    /\ emails["r3"].parentId = "r2"

\* C27: in a chain r1 <- r2 <- r3 a status query for r1 or r2 looks up the
\* family of r1 and is answered with r1 and r2 only, and a query for r3
\* looks up the family of r2 and is answered with r2 and r3 only, r2 first
\* when it is the older of the two.
C27_OneLevelDeep ==
    [][ /\ \A id \in {"r1", "r2", "r3"}, subject \in {<<>>, SubjectT} :
              Chain /\ StatusRequest(id, subject)
              => /\ query'.pc = "family"
                 /\ query'.rootId = IF id = "r3" THEN "r2" ELSE "r1"
        /\ ( Chain /\ query.pc = "family" /\ query' # query )
           => /\ out'.kind = "status" /\ out'.found
              /\ query.rootId = "r1" => Range(out'.trace.thread) = {"r1", "r2"}
              /\ query.rootId = "r2"
                 => /\ Range(out'.trace.thread) = {"r2", "r3"}
                    /\ emails["r2"].createdAt < emails["r3"].createdAt
                       => out'.trace.thread = <<"r2", "r3">>
    ]_vars

\* C27 witness: in a chain, the query for r3 has just been answered with
\* [r2, r3]
C27_Witness ==
    /\ Chain
    /\ out.kind = "status" /\ out.found
    /\ out.trace.trackingId = "r3"
    /\ out.trace.thread = <<"r2", "r3">>

\* C28: in every threadBreakdown entry k has isReply true if and only if
\* its message has a parentId or k > 1.
C28_IsReplyRule ==
    out.kind = "status" /\ out.found
    => \A k \in 1..Len(out.threadBreakdown) :
          /\ out.threadBreakdown[k].index = k
          /\ out.threadBreakdown[k].isReply
                <=> (emails[out.trace.thread[k]].parentId # Null \/ k > 1)

\* C28 witness: the first entry of a thread is a reply whose parent is not
\* in the store
C28_Witness ==
    /\ out.kind = "status" /\ out.found
    /\ out.threadBreakdown[1].isReply
    /\ emails[out.trace.thread[1]].parentId # Null
    /\ emails[out.trace.thread[1]].parentId \notin DOMAIN emails

\* C29: for every message, opened is true if and only if openCount > 0, and
\* if and only if openHistory is non-empty.
C29_OpenedIffCounted ==
    \A id \in DOMAIN emails :
        /\ emails[id].opened <=> emails[id].openCount > 0
        /\ emails[id].opened <=> emails[id].openHistory # <<>>

\* C29 witness: a message whose openCount has fallen behind its history
C29_Witness ==
    \E id \in DOMAIN emails :
        /\ emails[id].opened
        /\ emails[id].openCount < Len(emails[id].openHistory)

\* every parentId names a message of the store that has no parent
WellFormed ==
    \A id \in DOMAIN emails :
        emails[id].parentId # Null
        => /\ emails[id].parentId \in DOMAIN emails
           /\ emails[emails[id].parentId].parentId = Null

\* the root of a message of a well-formed store
RootOf(id) == IF emails[id].parentId = Null THEN id ELSE emails[id].parentId

\* C30: in a well-formed store a status query for a known id s looks up the
\* family of the root of s, and the answer is the set of messages with that
\* root, oldest first: it contains s and is the same for every member used
\* as the seed.
C30_SeedIndependent ==
    [][ /\ \A s \in {"r1", "r2", "r3"}, subject \in {<<>>, SubjectT} :
              WellFormed /\ s \in DOMAIN emails /\ StatusRequest(s, subject)
              => query'.pc = "family" /\ query'.rootId = RootOf(s)
        /\ ( /\ WellFormed
             /\ query.pc = "family" /\ query' # query )
           => /\ out'.kind = "status" /\ out'.found
              /\ query.trackingId \in Range(out'.trace.thread)
              /\ Range(out'.trace.thread)
                    = {t \in DOMAIN emails : RootOf(t) = query.rootId}
              /\ Len(out'.trace.thread) = Cardinality(Range(out'.trace.thread))
              /\ Ascending(out'.trace.thread)
    ]_vars

\* C30 witness: in a well-formed store the query seeded with the youngest
\* reply has just been answered with the root and both replies
C30_Witness ==
    /\ WellFormed
    /\ out.kind = "status" /\ out.found
    /\ out.trace.trackingId = "r3"
    /\ out.trace.thread = <<"r1", "r2", "r3">>

====
